---- MODULE Spec2Model ----
(***************************************************************************)
(* A model of the coordination primitives of aiocogs (cache, ready, Valve, *)
(* throttle, Sling) as state machines over one asyncio event loop.  Each  *)
(* action is one non-suspending segment of a coroutine or one call of a   *)
(* synchronous method: the loop is single threaded, so a segment between  *)
(* two awaits is atomic.                                                   *)
(***************************************************************************)
EXTENDS Integers, Sequences, FiniteSets, TLC

\* ---------------------------------------------------------------- bounds
NCalls == 3
MaxSizeBound == 2
NTasks == 3
MaxTimers == 2
MaxTime == 2
MaxPeriod == 2
MaxLimit == 1
NThrottleCalls == 3
MaxSlingLimit == 2
MaxTrail == 1
MaxRate == 2
MaxHandlers == 2
MaxExec == 4
MaxCap == 2

Calls == 1..NCalls
Keys == {"k1", "k2"}
Results == {"r1", "r2"}
Tasks == 1..NTasks
Values == {"f", "g"}
\* A classification key is the set of the values it holds for.
KeySets == {{"f"}, {"f", "g"}}
Periods == 1..MaxPeriod
Limits == 0..MaxLimit
Args == {"a1", "a2"}
Handlers == {"h1", "h2", "h3"}

VARIABLES
    \* cache(function, determine, maxsize)
    maxsize,    \* the maxsize argument of cache
    states,     \* dict states: key -> stored result
    events,     \* dict events: key -> pending marker (named by the call that made it)
    evset,      \* the markers (asyncio.Event) that have been set
    pc,         \* where each wrapper call is
    key,        \* each call's state key
    ev,         \* the marker a call fetched from events and waits on
    ret,        \* what the wrapper call returned or raised
    fnout,      \* what the wrapped function returned or raised inside the call
    late,       \* history: calls begun when their key was already stored
    timedOut,   \* history: some wait on a marker has timed out
    \* ready(*tasks): the tasks are 1..NTasks in the order they were passed
    rpc,        \* where the generator is: created, iterating, yielded, ended
    tdone,      \* the tasks that have completed
    callbacks,  \* the done callbacks the loop has scheduled (call_soon), in order
    queue,      \* asyncio.Queue: the handoff queue
    left,       \* the generator's counter
    yielded,    \* history: the tasks yielded, in order
    completion, \* history: the tasks in the order they completed
    doneAtStart, \* history: the tasks already complete when iteration began
    \* Valve
    vstate,     \* Valve._state: the active values, in insertion order
    timers,     \* the pending expiries: task id -> [value, period, deadline]
    nextId,     \* the id of the next sleep task
    now,        \* the loop's clock
    last,       \* history: the last call of check
    \* throttle(function, period, limit, signal), over a Valve of its own
    tperiod,    \* the period argument
    tlimit,     \* the limit argument
    tlog,       \* history: the calls of the wrapper, in order
    \* Sling.check(value, period, limit, trail, rate, key)
    sargs,      \* the arguments the caller passes on every call
    slast,      \* history: the last call of Sling.check
    slog,       \* history: the room seen and the period used by each call
    \* Stream
    bundle,     \* Stream._stores[0]: the handlers called together
    single,     \* Stream._stores[1]: the handlers called in order
    spc,        \* where start is: idle, loop, awaiting, returned, raised
    sidx,       \* the position of the for loop in single
    sfn,        \* start's local variable function
    sret,       \* what start returned or raised
    sarg,       \* the arguments start was called with
    sinv,       \* history: the calls of single handlers, in order
    svals,      \* history: the resolved return values of the single handlers
    binv,       \* history: the calls of bundle handlers, in order
    btask,      \* the state of each coroutine gather runs: pending or done
    \* infinite(execute, wait, signal)
    iwait,      \* the wait argument: none (not given), pending or resolved
    isignal,    \* the signal argument
    ipc,        \* where the task is: created, waiting, executing, stopped, cancelled
    icalls,     \* history: how many times execute was called
    irunning,   \* how many calls of execute have not returned
    ilog,       \* history: what execute returned, in order
    \* one caller's fixed key and limit for Valve.check
    cap

cacheVars == <<maxsize, states, events, evset, pc, key, ev, ret, fnout, late, timedOut>>

readyVars == <<rpc, tdone, callbacks, queue, left, yielded, completion, doneAtStart>>

valveVars == <<vstate, timers, nextId, now, last>>

throttleVars == <<tperiod, tlimit, tlog>>

slingVars == <<sargs, slast, slog>>

streamVars == <<bundle, single, spc, sidx, sfn, sret, sarg, sinv, svals, binv, btask>>

infiniteVars == <<iwait, isignal, ipc, icalls, irunning, ilog>>

capVars == <<cap>>

vars == <<cacheVars, readyVars, valveVars, throttleVars, slingVars, streamVars,
          infiniteVars, capVars>>

\* ---------------------------------------------------------------- dicts
EmptyDict == [x \in {} |-> x]

DictPut(d, k, v) == [x \in (DOMAIN d) \cup {k} |-> IF x = k THEN v ELSE d[x]]

DictDel(d, k) == [x \in (DOMAIN d) \ {k} |-> d[x]]

\* ---------------------------------------------------------------- cache
\* The admission test written with <= instead of <.
AdmitOffByOne(d, m) == Cardinality(DOMAIN d) <= m

\* "if len(states) < maxsize"
Admit(d, m) == Cardinality(DOMAIN d) < m

\* The re-check of the cache left out: every call recomputes.
CacheHitNever(k) == FALSE

\* "result = states[state]" succeeds
CacheHit(k) == k \in DOMAIN states

CacheStart(m) ==
    /\ maxsize = m
    /\ states = EmptyDict
    /\ events = EmptyDict
    /\ evset = {}
    /\ pc = [c \in Calls |-> "idle"]
    /\ key = [c \in Calls |-> "none"]
    /\ ev = [c \in Calls |-> 0]
    /\ ret = [c \in Calls |-> "none"]
    /\ fnout = [c \in Calls |-> "none"]
    /\ late = {}
    /\ timedOut = FALSE

\* Lines 132-142: the re-check of the cache, and on a miss the installation of a
\* new marker and the start of the wrapped function.
Recheck(c, k) ==
    IF CacheHit(k)
    THEN /\ ret' = [ret EXCEPT ![c] = states[k]]
         /\ pc' = [pc EXCEPT ![c] = "done"]
         /\ UNCHANGED events
    ELSE /\ events' = DictPut(events, k, c)
         /\ pc' = [pc EXCEPT ![c] = "running"]
         /\ UNCHANGED ret

\* A wrapper call starts: lines 110-122 (a marker exists: await determine) or
\* lines 110-118 and 132-142 (no marker).
CacheCall(c, k) ==
    /\ pc[c] = "idle"
    /\ \A b \in Calls : b < c => pc[b] # "idle"
    /\ key' = [key EXCEPT ![c] = k]
    /\ late' = IF k \in DOMAIN states THEN late \cup {c} ELSE late
    /\ IF k \in DOMAIN events
       THEN /\ ev' = [ev EXCEPT ![c] = events[k]]
            /\ pc' = [pc EXCEPT ![c] = "determine"]
            /\ UNCHANGED <<events, ret>>
       ELSE /\ Recheck(c, k)
            /\ UNCHANGED ev
    /\ UNCHANGED <<maxsize, states, evset, fnout, timedOut>>

\* determine(*state) has returned the budget: the call waits on the marker.
CacheDetermined(c) ==
    /\ pc[c] = "determine"
    /\ pc' = [pc EXCEPT ![c] = "waiting"]
    /\ UNCHANGED <<maxsize, states, events, evset, key, ev, ret, fnout, late,
                   timedOut>>

\* The marker was set: wait_for returns, the call goes on to the re-check.
CacheWake(c) ==
    /\ pc[c] = "waiting"
    /\ ev[c] \in evset
    /\ Recheck(c, key[c])
    /\ UNCHANGED <<maxsize, states, evset, key, ev, fnout, late, timedOut>>

\* The budget ran out first: TimeoutError is swallowed, the call goes on.
CacheTimeout(c) ==
    /\ pc[c] = "waiting"
    /\ ev[c] \notin evset
    /\ timedOut' = TRUE
    /\ Recheck(c, key[c])
    /\ UNCHANGED <<maxsize, states, evset, key, ev, fnout, late>>

\* Lines 142-152: the wrapped function finishes with out (a result or "raised");
\* the finally clause pops and sets whatever marker is registered for the key.
CacheFinish(c, out) ==
    /\ pc[c] = "running"
    /\ fnout' = [fnout EXCEPT ![c] = out]
    /\ pc' = [pc EXCEPT ![c] = "done"]
    /\ IF key[c] \notin DOMAIN events
       THEN /\ ret' = [ret EXCEPT ![c] = "KeyError"]
            /\ UNCHANGED <<events, evset, states>>
       ELSE /\ evset' = evset \cup {events[key[c]]}
            /\ events' = DictDel(events, key[c])
            /\ IF out = "raised"
               THEN /\ ret' = [ret EXCEPT ![c] = "FunctionError"]
                    /\ UNCHANGED states
               ELSE /\ ret' = [ret EXCEPT ![c] = out]
                    /\ states' = IF Admit(states, maxsize)
                                 THEN DictPut(states, key[c], out)
                                 ELSE states
    /\ UNCHANGED <<maxsize, key, ev, late, timedOut>>

CacheReturn(c, r) == CacheFinish(c, r)

CacheRaise(c) == CacheFinish(c, "raised")

\* ---------------------------------------------------------------- ready
\* The mutant of QueuePut: the handoff queue used as a stack.
QueuePutFront(q, t) == <<t>> \o q

\* "queue.put_nowait", the done callback of every task
QueuePut(q, t) == Append(q, t)

\* The tasks of S in the order they were passed to ready.
RECURSIVE InOrder(_, _)
InOrder(S, n) ==
    IF n > NTasks THEN <<>>
    ELSE (IF n \in S THEN <<n>> ELSE <<>>) \o InOrder(S, n + 1)

ReadyStart0 ==
    /\ rpc = "created"
    /\ tdone = {}
    /\ callbacks = <<>>
    /\ queue = <<>>
    /\ left = 0
    /\ yielded = <<>>
    /\ completion = <<>>
    /\ doneAtStart = {}

\* A task completes: the loop schedules its done callbacks.
TaskComplete(t) ==
    /\ t \notin tdone
    /\ tdone' = tdone \cup {t}
    /\ completion' = Append(completion, t)
    /\ callbacks' = IF rpc = "created" THEN callbacks ELSE Append(callbacks, t)
    /\ UNCHANGED <<rpc, queue, left, yielded, doneAtStart>>

\* The first __anext__, lines 72-86: the counter is set and a done callback is
\* added to every task in the order passed; add_done_callback on a task that is
\* already done schedules the callback at once.
ReadyBegin ==
    /\ rpc = "created"
    /\ left' = NTasks
    /\ callbacks' = callbacks \o InOrder(tdone, 1)
    /\ doneAtStart' = tdone
    /\ rpc' = IF NTasks = 0 THEN "ended" ELSE "iterating"
    /\ UNCHANGED <<tdone, queue, yielded, completion>>

\* The loop runs the next scheduled done callback.
RunCallback ==
    /\ callbacks # <<>>
    /\ queue' = QueuePut(queue, Head(callbacks))
    /\ callbacks' = Tail(callbacks)
    /\ UNCHANGED <<rpc, tdone, left, yielded, completion, doneAtStart>>

\* Line 86: queue.get() returns the head of the queue, which is yielded.
ReadyGet ==
    /\ rpc = "iterating"
    /\ queue # <<>>
    /\ yielded' = Append(yielded, Head(queue))
    /\ queue' = Tail(queue)
    /\ rpc' = "yielded"
    /\ UNCHANGED <<tdone, callbacks, left, completion, doneAtStart>>

\* The consumer asks for the next item, lines 88 and 84.
ReadyResume ==
    /\ rpc = "yielded"
    /\ left' = left - 1
    /\ rpc' = IF left - 1 = 0 THEN "ended" ELSE "iterating"
    /\ UNCHANGED <<tdone, callbacks, queue, yielded, completion, doneAtStart>>

\* ---------------------------------------------------------------- Valve
\* "len(tuple(filter(key, self._state)))"
ValveCount(st, K) == Len(SelectSeq(st, LAMBDA v : v \in K))

\* The mutant of ValveLeft: the room counted as if the new value were in already.
ValveLeftAfter(st, K, limit) == limit - ValveCount(st, K) - 1

\* "limit - self.count(key)"
ValveLeft(st, K, limit) == limit - ValveCount(st, K)

\* The mutant of ListRemove: every equal entry is removed.
RECURSIVE ListRemoveAll(_, _)
ListRemoveAll(s, v) ==
    IF s = <<>> THEN <<>>
    ELSE (IF Head(s) = v THEN <<>> ELSE <<Head(s)>>) \o ListRemoveAll(Tail(s), v)

\* list.remove(value): the first entry equal to value is deleted. With no such
\* entry list.remove raises ValueError inside the done callback, which the loop
\* logs, and the list is left as it is.
RECURSIVE ListRemove(_, _)
ListRemove(s, v) ==
    IF s = <<>> THEN <<>>
    ELSE IF Head(s) = v THEN Tail(s)
    ELSE <<Head(s)>> \o ListRemove(Tail(s), v)

\* The truth value of a number: true unless it is zero.
Truthy(x) == x # 0

\* "if bypass or left"
Admits(bypass, room) == bypass \/ Truthy(room)

\* asyncio.sleep(period) with period <= 0 completes at once.
Deadline(period) == now + (IF period > 0 THEN period ELSE 0)

NoCheck == [called |-> FALSE]

ValveStart(st) ==
    /\ vstate = st
    /\ timers = EmptyDict
    /\ nextId = 1
    /\ now = 0
    /\ last = NoCheck

\* Valve.observe, lines 320-330: the value is appended and a sleep task with the
\* removal as its done callback is created.
Track(v, period) ==
    /\ nextId <= MaxTimers
    /\ vstate' = Append(vstate, v)
    /\ timers' = DictPut(timers, nextId,
                         [value |-> v, period |-> period, deadline |-> Deadline(period)])
    /\ nextId' = nextId + 1

ValveObserve(v, period) ==
    /\ now + period <= MaxTime
    /\ Track(v, period)
    /\ UNCHANGED <<now, last>>

\* Valve.check, lines 339-345.
ValveCheck(v, period, limit, K, bypass) ==
    LET room == ValveLeft(vstate, K, limit) IN
    /\ now + period <= MaxTime
    /\ IF Admits(bypass, room)
       THEN Track(v, period)
       ELSE UNCHANGED <<vstate, timers, nextId>>
    /\ last' = [called |-> TRUE, count |-> ValveCount(vstate, K), limit |-> limit,
                bypass |-> bypass, added |-> (vstate' # vstate), ret |-> room]
    /\ UNCHANGED now

\* The sleep task of expiry t is done: its done callback, manage, removes the value.
Expire(t) ==
    /\ t \in DOMAIN timers
    /\ timers[t].deadline <= now
    /\ vstate' = ListRemove(vstate, timers[t].value)
    /\ timers' = DictDel(timers, t)
    /\ UNCHANGED <<nextId, now, last>>

\* The caller cancels the task observe returned: a cancelled task is done, so
\* its done callback runs as well.
Cancel(t) ==
    /\ t \in DOMAIN timers
    /\ timers[t].deadline > now
    /\ vstate' = ListRemove(vstate, timers[t].value)
    /\ timers' = DictDel(timers, t)
    /\ UNCHANGED <<nextId, now, last>>

\* Time passes; a sleep whose deadline is reached completes before more passes.
Tick ==
    /\ now < MaxTime
    /\ \A t \in DOMAIN timers : timers[t].deadline > now
    /\ now' = now + 1
    /\ UNCHANGED <<vstate, timers, nextId, last>>

\* ---------------------------------------------------------------- throttle
\* The wrapped function and the value the valve tracks for it.
Function == "f"

\* What the wrapped function returns for an argument.
FunctionResult(a) == <<"result", a>>

\* The signal argument.
Signal == <<"signal">>

ThrottleStart(p, l) ==
    /\ tperiod = p
    /\ tlimit = l
    /\ tlog = <<>>

\* throttle.observe, lines 359-365: the valve is checked under the key "value is
\* function"; a zero return gives signal, anything else calls the function.
ThrottleCall(a) ==
    /\ Len(tlog) < NThrottleCalls
    /\ ValveCheck(Function, tperiod, tlimit, {Function}, FALSE)
    /\ tlog' = Append(tlog, [arg |-> a,
                             inside |-> Cardinality(DOMAIN timers),
                             invoked |-> Truthy(last'.ret),
                             ret |-> IF Truthy(last'.ret) THEN FunctionResult(a)
                                     ELSE Signal])
    /\ UNCHANGED <<tperiod, tlimit>>

\* ---------------------------------------------------------------- Sling
RECURSIVE Factorial(_)
Factorial(n) == IF n <= 1 THEN 1 ELSE n * Factorial(n - 1)

\* Under Sling the clock counts in 1/Den of the unit of period, so that every
\* period the code computes is a whole number of ticks; the arithmetic is exact
\* (the code's is floating point).
Den == Factorial(MaxSlingLimit)

\* The mutant of EffectivePeriod: trail is left out.
EffectivePeriodNoTrail(period, room, trail, limit, rate) ==
    (period * room * rate * Den) \div limit

\* "period *= ((left + trail) / limit) * rate", in ticks; limit is not zero.
EffectivePeriod(period, room, trail, limit, rate) ==
    (period * (room + trail) * rate * Den) \div limit

SlingStart(a) ==
    /\ sargs = a
    /\ slast = [called |-> FALSE]
    /\ slog = {}

SlingArgs ==
    [period : Periods, limit : 0..MaxSlingLimit, trail : 0..MaxTrail,
     rate : 1..MaxRate, key : KeySets]

\* Sling.check, lines 380-386. With limit = 0 the division raises
\* ZeroDivisionError before anything is tracked.
SlingCheck(v) ==
    LET room == ValveLeft(vstate, sargs.key, sargs.limit) IN
    /\ UNCHANGED <<sargs, now, last>>
    /\ IF sargs.limit = 0
       THEN /\ slast' = [called |-> TRUE, error |-> TRUE, room |-> room, value |-> v,
                         before |-> vstate]
            /\ UNCHANGED <<vstate, timers, nextId, slog>>
       ELSE LET eff == EffectivePeriod(sargs.period, room, sargs.trail,
                                       sargs.limit, sargs.rate) IN
            /\ Track(v, eff)
            /\ slast' = [called |-> TRUE, error |-> FALSE, room |-> room, value |-> v,
                         before |-> vstate, period |-> eff,
                         ret |-> IF room > 0 THEN room ELSE 0]
            /\ slog' = slog \cup {[room |-> room, period |-> eff]}

\* Time passes up to the next deadline.
Skip ==
    /\ DOMAIN timers # {}
    /\ \A t \in DOMAIN timers : timers[t].deadline > now
    /\ \E t \in DOMAIN timers :
          /\ \A u \in DOMAIN timers : timers[t].deadline <= timers[u].deadline
          /\ now' = timers[t].deadline
    /\ UNCHANGED <<vstate, timers, nextId, last>>

\* ---------------------------------------------------------------- Stream
\* Stream.signal, an object of its own.
StopSignal == "signal"

\* What a handler may return (once awaited, when it is awaitable).
HandlerValues == {StopSignal, "none"}

\* The mutants of Stops: the test never, or always, succeeds.
StopsNever(v) == FALSE

StopsAlways(v) == TRUE

\* "if not signal is self.signal: continue", else break
Stops(v) == v = StopSignal

\* The mutant of BundleCalls: the first bundle handler is left out.
BundleCallsButFirst(b, a) ==
    [i \in 1..(Len(b) - 1) |-> [pos |-> i + 1, handler |-> b[i + 1], arg |-> a]]

\* Lines 252-254: unpacking the generator into gather calls every bundle handler
\* with start's arguments, in order.
BundleCalls(b, a) == [i \in 1..Len(b) |-> [pos |-> i, handler |-> b[i], arg |-> a]]

StreamStart0 ==
    /\ bundle = <<>>
    /\ single = <<>>
    /\ spc = "idle"
    /\ sidx = 0
    /\ sfn = "unbound"
    /\ sret = "none"
    /\ sarg = "none"
    /\ sinv = <<>>
    /\ svals = <<>>
    /\ binv = <<>>
    /\ btask = <<>>

\* Stream.sub(group)(function), lines 243-246; group False is bundle, True single.
Sub(h, g) ==
    /\ spc = "idle"
    /\ IF g
       THEN /\ Len(single) < MaxHandlers
            /\ single' = Append(single, h)
            /\ UNCHANGED bundle
       ELSE /\ Len(bundle) < MaxHandlers
            /\ bundle' = Append(bundle, h)
            /\ UNCHANGED single
    /\ UNCHANGED <<spc, sidx, sfn, sret, sarg, sinv, svals, binv, btask>>

\* Line 272, "return function": the name is bound by the for statement only (the
\* generator expression of line 252 has a scope of its own).
ReturnFunction(fn) ==
    IF fn = "unbound"
    THEN spc' = "raised" /\ sret' = "UnboundLocalError"
    ELSE spc' = "returned" /\ sret' = fn

\* Lines 250-258: the bundle handlers are called and handed to gather, which is
\* scheduled and not awaited; then the for loop begins.
StreamStart(a) ==
    /\ spc = "idle"
    /\ sarg' = a
    /\ binv' = BundleCalls(bundle, a)
    /\ btask' = [i \in 1..Len(bundle) |-> "pending"]
    /\ IF single = <<>>
       THEN ReturnFunction(sfn) /\ UNCHANGED sidx
       ELSE spc' = "loop" /\ sidx' = 1 /\ UNCHANGED sret
    /\ UNCHANGED <<bundle, single, sfn, sinv, svals>>

\* Lines 266-272 for the value v of the handler fn at position sidx.
Resolve(fn, v) ==
    /\ svals' = Append(svals, v)
    /\ IF Stops(v) \/ sidx + 1 > Len(single)
       THEN ReturnFunction(fn) /\ UNCHANGED sidx
       ELSE spc' = "loop" /\ sidx' = sidx + 1 /\ UNCHANGED sret

\* Lines 258-264: the next single handler is called and returns an awaitable.
SingleInvokeAsync ==
    /\ spc = "loop"
    /\ sfn' = single[sidx]
    /\ sinv' = Append(sinv, [pos |-> sidx, handler |-> single[sidx], arg |-> sarg])
    /\ spc' = "awaiting"
    /\ UNCHANGED <<bundle, single, sidx, sret, sarg, svals, binv, btask>>

\* Lines 258-272: the next single handler is called and returns v, no awaitable.
SingleInvokeSync(v) ==
    /\ spc = "loop"
    /\ sfn' = single[sidx]
    /\ sinv' = Append(sinv, [pos |-> sidx, handler |-> single[sidx], arg |-> sarg])
    /\ Resolve(single[sidx], v)
    /\ UNCHANGED <<bundle, single, sarg, binv, btask>>

\* Lines 264-272: the awaited handler resolves to v.
SingleResolve(v) ==
    /\ spc = "awaiting"
    /\ Resolve(sfn, v)
    /\ UNCHANGED <<bundle, single, sfn, sarg, sinv, binv, btask>>

\* A coroutine of the gathered group finishes; the group runs only while start
\* is suspended in an await or is over.
BundleDone(i) ==
    /\ spc \in {"awaiting", "returned", "raised"}
    /\ i \in DOMAIN btask
    /\ btask[i] = "pending"
    /\ btask' = [btask EXCEPT ![i] = "done"]
    /\ UNCHANGED <<bundle, single, spc, sidx, sfn, sret, sarg, sinv, svals, binv>>

\* ---------------------------------------------------------------- infinite
\* The module's marker object, the default of the signal argument.
Marker == "marker"

\* What execute may return: the marker, another sentinel object, None.
ExecValues == {Marker, "custom", "none"}

\* "if not result is marker: continue", else break
IsMarker(r) == r = Marker

\* The mutant of Gated: the start signal is never awaited.
GatedNever(w) == FALSE

\* "if wait"
Gated(w) == w # "none"

InfiniteStart(w, sig) ==
    /\ iwait = w
    /\ isignal = sig
    /\ ipc = "created"
    /\ icalls = 0
    /\ irunning = 0
    /\ ilog = <<>>

\* Line 209: execute() is called and awaited.
Execute ==
    /\ icalls' = icalls + 1
    /\ irunning' = irunning + 1
    /\ ipc' = "executing"

\* The task starts to run, lines 203-209; awaiting a wait that is already
\* resolved does not suspend.
InfiniteRun ==
    /\ ipc = "created"
    /\ IF Gated(iwait) /\ iwait = "pending"
       THEN ipc' = "waiting" /\ UNCHANGED <<icalls, irunning>>
       ELSE Execute
    /\ UNCHANGED <<iwait, isignal, ilog>>

\* The caller's start signal resolves.
WaitResolve ==
    /\ iwait = "pending"
    /\ iwait' = "resolved"
    /\ UNCHANGED <<isignal, ipc, icalls, irunning, ilog>>

\* Line 205 returns: the loop is entered.
InfiniteGate ==
    /\ ipc = "waiting"
    /\ iwait = "resolved"
    /\ Execute
    /\ UNCHANGED <<iwait, isignal, ilog>>

\* execute() returns r, lines 209-215: the loop ends or execute is called again.
ExecReturn(r) ==
    /\ ipc = "executing"
    /\ IsMarker(r) \/ icalls < MaxExec
    /\ ilog' = Append(ilog, r)
    /\ IF IsMarker(r)
       THEN ipc' = "stopped" /\ irunning' = irunning - 1 /\ UNCHANGED icalls
       ELSE ipc' = "executing" /\ icalls' = icalls + 1 /\ UNCHANGED irunning
    /\ UNCHANGED <<iwait, isignal>>

\* The caller cancels the task infinite returned.
InfiniteCancel ==
    /\ ipc \in {"created", "waiting", "executing"}
    /\ ipc' = "cancelled"
    /\ irunning' = 0
    /\ UNCHANGED <<iwait, isignal, icalls, ilog>>

\* ---------------------------------------------------------------- a capped valve
\* A limit is any number >= 0, not only a whole one: this caller's limit is
\* counted in halves, so 1 is a limit of 0.5 and 2 a limit of 1.
CapLimits == 0..(2 * MaxCap)

CapStart(K, l) == cap = [key |-> K, limit |-> l]

\* Valve.left in halves: limit - count(key).
CapLeft(st, K, l) == l - 2 * ValveCount(st, K)

\* The mutant of CapAdmits: every check admits.
CapAdmitsAlways(room) == TRUE

\* "if bypass or left", with bypass=False.
CapAdmits(room) == Admits(FALSE, room)

\* One caller's use of Valve.check, lines 339-345: bypass=False, its key, its
\* limit and values the key holds for. last.limit and last.ret are in halves.
CapCheck(v, period) ==
    LET room == CapLeft(vstate, cap.key, cap.limit) IN
    /\ v \in cap.key
    /\ now + period <= MaxTime
    /\ IF CapAdmits(room)
       THEN Track(v, period)
       ELSE UNCHANGED <<vstate, timers, nextId>>
    /\ last' = [called |-> TRUE, count |-> ValveCount(vstate, cap.key),
                limit |-> cap.limit, bypass |-> FALSE, added |-> (vstate' # vstate),
                ret |-> room]
    /\ UNCHANGED <<now, cap>>

\* ---------------------------------------------------------------- specifications
\* Each specification runs one component and leaves the others as they start.
CacheOnly == UNCHANGED <<infiniteVars, capVars, readyVars, valveVars, throttleVars, slingVars, streamVars>>

ReadyOnly == UNCHANGED <<infiniteVars, capVars, cacheVars, valveVars, throttleVars, slingVars, streamVars>>

ValveOnly == UNCHANGED <<infiniteVars, capVars, cacheVars, readyVars, throttleVars, slingVars, streamVars>>

ThrottleOnly == UNCHANGED <<infiniteVars, capVars, cacheVars, readyVars, slingVars, streamVars>>

SlingOnly == UNCHANGED <<infiniteVars, capVars, cacheVars, readyVars, throttleVars, streamVars>>

StreamOnly ==
    UNCHANGED <<infiniteVars, capVars, cacheVars, readyVars, valveVars, throttleVars,
                slingVars>>

InfiniteOnly ==
    UNCHANGED <<capVars, cacheVars, readyVars, valveVars, throttleVars, slingVars,
                streamVars>>

CapOnly ==
    UNCHANGED <<infiniteVars, cacheVars, readyVars, throttleVars, slingVars,
                streamVars>>

\* infinite and the capped valve, not in use.
RestIdle == InfiniteStart("none", Marker) /\ CapStart({"f"}, 2)

SlingIdle ==
    SlingStart([period |-> 1, limit |-> 1, trail |-> 0, rate |-> 1, key |-> {"f"}])

InitCache ==
    /\ \E m \in 0..MaxSizeBound : CacheStart(m)
    /\ ReadyStart0 /\ ValveStart(<<>>) /\ ThrottleStart(1, 1) /\ SlingIdle
    /\ StreamStart0 /\ RestIdle

NextCache ==
    \/ \E c \in Calls, k \in Keys : CacheCall(c, k) /\ CacheOnly
    \/ \E c \in Calls : CacheDetermined(c) /\ CacheOnly
    \/ \E c \in Calls : CacheWake(c) /\ CacheOnly
    \/ \E c \in Calls : CacheTimeout(c) /\ CacheOnly
    \/ \E c \in Calls, r \in Results : CacheReturn(c, r) /\ CacheOnly
    \/ \E c \in Calls : CacheRaise(c) /\ CacheOnly

SpecCache == InitCache /\ [][NextCache]_vars

InitReady ==
    /\ ReadyStart0
    /\ CacheStart(0) /\ ValveStart(<<>>) /\ ThrottleStart(1, 1) /\ SlingIdle
    /\ StreamStart0 /\ RestIdle

NextReady ==
    \/ \E t \in Tasks : TaskComplete(t) /\ ReadyOnly
    \/ ReadyBegin /\ ReadyOnly
    \/ RunCallback /\ ReadyOnly
    \/ ReadyGet /\ ReadyOnly
    \/ ReadyResume /\ ReadyOnly

SpecReady == InitReady /\ [][NextReady]_vars

\* Valve(state): the constructor takes the initial list of active values.
InitValve ==
    /\ CacheStart(0) /\ ReadyStart0 /\ ThrottleStart(1, 1) /\ SlingIdle
    /\ StreamStart0 /\ RestIdle
    /\ \E st \in {<<>>} \cup {<<v>> : v \in Values} : ValveStart(st)

NextValve ==
    \/ \E v \in Values, p \in Periods :
          ValveObserve(v, p) /\ ValveOnly
    \/ \E v \in Values, p \in Periods, l \in Limits, K \in KeySets, b \in BOOLEAN :
          ValveCheck(v, p, l, K, b) /\ ValveOnly
    \/ \E t \in 1..MaxTimers : Expire(t) /\ ValveOnly
    \/ \E t \in 1..MaxTimers : Cancel(t) /\ ValveOnly
    \/ Tick /\ ValveOnly

SpecValve == InitValve /\ [][NextValve]_vars

\* The loop runs a done callback that is due, and its clock advances.
FairValve ==
    /\ WF_vars(Tick /\ ValveOnly)
    /\ \A t \in 1..MaxTimers : WF_vars(Expire(t) /\ ValveOnly)

FairSpecValve == SpecValve /\ FairValve

\* throttle makes a Valve of its own, empty, and keeps the task handles to itself.
InitThrottle ==
    /\ CacheStart(0) /\ ReadyStart0 /\ ValveStart(<<>>) /\ SlingIdle
    /\ StreamStart0 /\ RestIdle
    /\ \E p \in Periods, l \in Limits : ThrottleStart(p, l)

NextThrottle ==
    \/ \E a \in Args : ThrottleCall(a) /\ ThrottleOnly
    \/ \E t \in 1..MaxTimers : Expire(t) /\ ValveOnly
    \/ Tick /\ ValveOnly

SpecThrottle == InitThrottle /\ [][NextThrottle]_vars

\* A Sling is a Valve, with Valve's constructor; it is used through check.
InitSling ==
    /\ CacheStart(0) /\ ReadyStart0 /\ ThrottleStart(1, 1)
    /\ StreamStart0 /\ RestIdle
    /\ \E st \in {<<>>, <<"f">>} : ValveStart(st)
    /\ \E a \in SlingArgs : SlingStart(a)

NextSling ==
    \/ \E v \in Values : SlingCheck(v) /\ SlingOnly
    \/ \E t \in 1..MaxTimers : Expire(t) /\ ValveOnly
    \/ Skip /\ ValveOnly

SpecSling == InitSling /\ [][NextSling]_vars

\* A Stream starts with both groups empty; handlers are registered, then start
\* is called.
InitStream ==
    /\ StreamStart0 /\ RestIdle
    /\ CacheStart(0) /\ ReadyStart0 /\ ValveStart(<<>>) /\ ThrottleStart(1, 1)
    /\ SlingIdle

NextStream ==
    \/ \E h \in Handlers, g \in BOOLEAN : Sub(h, g) /\ StreamOnly
    \/ \E a \in Args : StreamStart(a) /\ StreamOnly
    \/ SingleInvokeAsync /\ StreamOnly
    \/ \E v \in HandlerValues : SingleInvokeSync(v) /\ StreamOnly
    \/ \E v \in HandlerValues : SingleResolve(v) /\ StreamOnly
    \/ \E i \in 1..MaxHandlers : BundleDone(i) /\ StreamOnly

SpecStream == InitStream /\ [][NextStream]_vars

\* The task infinite creates, for each way of passing wait and signal.
InitInfinite ==
    /\ \E w \in {"none", "pending", "resolved"}, sig \in {Marker, "custom"} :
          InfiniteStart(w, sig)
    /\ CapStart({"f"}, 2)
    /\ CacheStart(0) /\ ReadyStart0 /\ ValveStart(<<>>) /\ ThrottleStart(1, 1)
    /\ SlingIdle /\ StreamStart0

NextInfinite ==
    \/ InfiniteRun /\ InfiniteOnly
    \/ WaitResolve /\ InfiniteOnly
    \/ InfiniteGate /\ InfiniteOnly
    \/ \E r \in ExecValues : ExecReturn(r) /\ InfiniteOnly
    \/ InfiniteCancel /\ InfiniteOnly

SpecInfinite == InitInfinite /\ [][NextInfinite]_vars

\* Valve(): constructed empty, used through observe, check and the task handles.
InitValveEmpty ==
    /\ ValveStart(<<>>)
    /\ CacheStart(0) /\ ReadyStart0 /\ ThrottleStart(1, 1) /\ SlingIdle
    /\ StreamStart0 /\ RestIdle

SpecValveEmpty == InitValveEmpty /\ [][NextValve]_vars

\* Valve(), used only through check with bypass=False, one key and one limit.
InitCap ==
    /\ ValveStart(<<>>)
    /\ \E K \in KeySets, l \in CapLimits : CapStart(K, l)
    /\ InfiniteStart("none", Marker)
    /\ CacheStart(0) /\ ReadyStart0 /\ ThrottleStart(1, 1) /\ SlingIdle
    /\ StreamStart0

NextCap ==
    \/ \E v \in Values, p \in Periods : CapCheck(v, p) /\ CapOnly
    \/ \E t \in 1..MaxTimers : Expire(t) /\ ValveOnly
    \/ Tick /\ ValveOnly

SpecCap == InitCap /\ [][NextCap]_vars

\* ---------------------------------------------------------------- claims
Running(k) == {c \in Calls : pc[c] = "running" /\ key[c] = k}

\* C1: as long as no wait on a pending marker has timed out, at most one
\* invocation of the wrapped function is in flight for each key.
C1_SingleFlight ==
    ~timedOut => \A k \in Keys : Cardinality(Running(k)) <= 1

\* C2: the number of stored entries never exceeds maxsize, no entry is ever
\* evicted, and once maxsize entries exist a call that succeeds with a further
\* key returns the function's result and adds no entry.
C2_AdmissionCap ==
    [][ /\ Cardinality(DOMAIN states') <= maxsize
        /\ DOMAIN states \subseteq DOMAIN states'
        /\ Cardinality(DOMAIN states) >= maxsize =>
              /\ DOMAIN states' = DOMAIN states
              /\ \A c \in Calls :
                    (pc[c] = "running" /\ pc'[c] = "done" /\ ret'[c] \in Results)
                       => ret'[c] = fnout'[c]
      ]_vars

\* A call with a key that is not stored has returned a result while the cache
\* holds maxsize >= 1 entries.
C2_Witness ==
    /\ maxsize >= 1
    /\ Cardinality(DOMAIN states) = maxsize
    /\ \E c \in Calls : /\ pc[c] = "done"
                        /\ key[c] \notin DOMAIN states
                        /\ ret[c] \in Results

\* C3: every finished wrapper call, also one whose wait timed out and that
\* started a redundant computation, ends with the function's result or with the
\* failure the wrapped function raised, and with no other error.
C3_NoOtherError ==
    \A c \in Calls : pc[c] = "done" => ret[c] \in Results \cup {"FunctionError"}

\* C4: when the wrapped function raises inside a call, that failure is what the
\* caller gets, the call writes no cache entry, and the marker the call installed
\* is no longer registered and has been set.
C4_FailurePath ==
    [][ \A c \in Calls :
          (pc[c] = "running" /\ pc'[c] = "done" /\ fnout'[c] = "raised")
             => /\ ret'[c] = "FunctionError"
                /\ states' = states
                /\ c \notin {events'[k] : k \in DOMAIN events'}
                /\ c \in evset'
      ]_vars

\* C5: a stored result is never replaced or removed, and a call begun after its
\* key was stored returns the stored result, never runs the wrapped function and
\* never installs a marker.
C5_Hit ==
    [][ /\ \A k \in DOMAIN states : k \in DOMAIN states' /\ states'[k] = states[k]
        /\ \A c \in late' :
              /\ pc'[c] \in {"done"}
              /\ ret'[c] = states'[key'[c]]
              /\ fnout'[c] = "none"
              /\ c \notin {events'[k] : k \in DOMAIN events'}
      ]_vars

\* A call begun after its key was stored has returned, while another call for
\* the same key ran the function redundantly.
C5_Witness ==
    \E c \in late, b \in Calls :
        /\ pc[c] = "done" /\ ret[c] = states[key[c]]
        /\ b # c /\ key[b] = key[c] /\ pc[b] = "done" /\ ret[b] = "KeyError"

\* The order the code yields in: the tasks already complete when iteration
\* began, in the order passed, then the others in the order they completed.
Expected == InOrder(doneAtStart, 1) \o SelectSeq(completion, LAMBDA t : t \notin doneAtStart)

IsPrefix(a, b) == Len(a) <= Len(b) /\ a = SubSeq(b, 1, Len(a))

C7_Admission ==
    (last.called /\ ~last.bypass) =>
        /\ last.count >= last.limit => (last.ret <= 0 /\ ~last.added)
        /\ last.count < last.limit => (last.added /\ last.ret = last.limit - last.count)

\* s2 is s with its first entry equal to v deleted.
RemovedFirst(s, s2, v) ==
    \E i \in 1..Len(s) :
        /\ s[i] = v
        /\ \A j \in 1..(i - 1) : s[j] # v
        /\ s2 = SubSeq(s, 1, i - 1) \o SubSeq(s, i + 1, Len(s))

\* C8: every expiry that observe scheduled is eventually gone, and none is left
\* pending after its period has elapsed; the step that ends it deletes the first
\* entry equal to its value and nothing else, so the count of every key holding
\* for the value goes down by one.
C8_Expiry ==
    /\ [][ \A t \in DOMAIN timers : t \notin DOMAIN timers' =>
              /\ RemovedFirst(vstate, vstate', timers[t].value)
              /\ \A K \in KeySets : timers[t].value \in K =>
                    ValveCount(vstate', K) = ValveCount(vstate, K) - 1
         ]_vars
    /\ [](\A t \in DOMAIN timers : now <= timers[t].deadline)
    /\ \A t \in 1..MaxTimers : (t \in DOMAIN timers) ~> (t \notin DOMAIN timers)

\* One of two expiries has run at its deadline and left two entries behind.
C8_Witness ==
    /\ nextId = 3
    /\ Cardinality(DOMAIN timers) = 1
    /\ Len(vstate) = 2
    /\ now >= 1

\* C9: with limit >= 1, a call of the throttled wrapper made while limit admitted
\* calls still have their expiry pending returns signal and does not call the
\* function; a call made while fewer have calls the function with its argument
\* and returns the function's result.
C9_Throttle ==
    tlimit >= 1 =>
        \A i \in 1..Len(tlog) :
            /\ tlog[i].inside >= tlimit =>
                  (~tlog[i].invoked /\ tlog[i].ret = Signal)
            /\ tlog[i].inside < tlimit =>
                  (tlog[i].invoked /\ tlog[i].ret = FunctionResult(tlog[i].arg))

\* With limit 1: a call ran the function, the next one inside the period got
\* signal, and a call after the expiry ran the function again.
C9_Witness ==
    /\ tlimit = 1
    /\ Len(tlog) >= 3
    /\ tlog[1].invoked /\ tlog[1].inside = 0
    /\ ~tlog[2].invoked /\ tlog[2].inside = 1
    /\ tlog[3].invoked /\ tlog[3].inside = 0

\* C10: with the same positive period, limit and rate and the same trail, a
\* check that sees less room (a more occupied valve) tracks its value with a
\* strictly larger effective period than one that sees more room.
C10_Monotone ==
    sargs.limit >= 1 =>
        \A a \in slog, b \in slog : a.room < b.room => a.period > b.period

\* The calls start has to make of the handlers hs, in order, with argument a.
CallsOf(hs, a) == [i \in 1..Len(hs) |-> [pos |-> i, handler |-> hs[i], arg |-> a]]

\* C11: the single handlers are called one at a time in registration order with
\* start's arguments, each resolved before the next is called; at the first one
\* that resolves to the stop signal no later handler is called and start returns
\* that handler.
C11_StopRule ==
    /\ Len(sinv) <= Len(single)
    /\ sinv = SubSeq(CallsOf(single, sarg), 1, Len(sinv))
    /\ Len(svals) = (IF spc = "awaiting" THEN Len(sinv) - 1 ELSE Len(sinv))
    /\ \A i \in 1..Len(svals) :
          svals[i] = StopSignal =>
              (i = Len(sinv) /\ spc = "returned" /\ sret = single[i])

\* The first of two single handlers resolved to the stop signal: start returned
\* it and the second was not called.
C11_Witness ==
    /\ spc = "returned"
    /\ Len(single) = 2
    /\ svals = <<StopSignal>>
    /\ Len(sinv) = 1
    /\ sret = single[1]

\* C12: once start is called every bundle handler has been called exactly once
\* with start's arguments, whatever the single handlers return, and start is
\* never held up by the bundle: its next step is possible whatever the state of
\* the gathered coroutines.
C12_BundlePhase ==
    /\ spc = "idle" => binv = <<>>
    /\ spc # "idle" => binv = CallsOf(bundle, sarg)
    /\ spc = "loop" => ENABLED SingleInvokeAsync
    /\ spc = "awaiting" => ENABLED SingleResolve(StopSignal)

\* start has returned on a stop signal while every coroutine of a non-empty
\* bundle is still pending.
C12_Witness ==
    /\ spc = "returned"
    /\ Len(bundle) = 2
    /\ \A i \in DOMAIN btask : btask[i] = "pending"
    /\ svals # <<>> /\ svals[Len(svals)] = StopSignal

\* C15: when single is not empty and no single handler resolves to the stop
\* signal, start calls every single handler once in registration order and
\* returns the last one registered.
C15_NoStop ==
    (/\ spc \in {"returned", "raised"}
     /\ single # <<>>
     /\ \A i \in 1..Len(svals) : svals[i] # StopSignal)
        => /\ spc = "returned"
           /\ sinv = CallsOf(single, sarg)
           /\ sret = single[Len(single)]

\* start went through two different single handlers without a stop signal.
C15_Witness ==
    /\ spc = "returned"
    /\ Len(single) = 2 /\ single[1] # single[2]
    /\ Len(svals) = 2
    /\ \A i \in 1..Len(svals) : svals[i] # StopSignal

\* C20: with no single handler registered, start completes without raising.
C20_EmptySingle ==
    single = <<>> => spc # "raised"

\* C13: a task made by infinite(execute, signal=S) ends after the first call of
\* execute that returns S and at no other time; every other value, the default
\* marker included when S is another object, has execute called again.
C13_StopSentinel ==
    /\ ipc = "stopped" => (ilog # <<>> /\ ilog[Len(ilog)] = isignal)
    /\ \A i \in 1..Len(ilog) :
          IF ilog[i] = isignal
          THEN i = Len(ilog) /\ ipc = "stopped"
          ELSE icalls > i

\* C14: with wait given, execute is not called before wait has resolved, and
\* once it has the task's next step calls it; with wait not given the task
\* never waits; no call of execute starts before the one before has returned.
C14_Gating ==
    /\ iwait = "pending" => icalls = 0
    /\ (ipc = "waiting" /\ iwait = "resolved") => ENABLED InfiniteGate
    /\ (ipc = "created" /\ iwait # "pending") => ENABLED (InfiniteRun /\ icalls' = 1)
    /\ iwait = "none" => ipc # "waiting"
    /\ irunning <= 1
    /\ ipc # "cancelled" => icalls = Len(ilog) + irunning

\* C14 happens: the task waited, wait resolved, and execute was called twice.
C14_Witness ==
    /\ iwait = "resolved"
    /\ icalls >= 2
    /\ Len(ilog) >= 1
    /\ ipc = "executing"

\* C16 as stated, for every argument combination: a call of Sling.check raises
\* nothing, appends the value once, and returns max(left, 0).
C16_Unconditional ==
    [][(slast' # slast \/ nextId' # nextId) =>
          /\ ~slast'.error
          /\ vstate' = Append(vstate, slast'.value)]_vars

\* C16, for a limit other than 0: a call of Sling.check appends the value once
\* whatever the room, schedules one expiry for it after
\* period * ((left + trail) / limit) * rate with left the room before the call,
\* and returns max(left, 0); with limit 0 the call raises and tracks nothing.
C16_Tracking ==
    [][(slast' # slast \/ nextId' # nextId) =>
          LET room == sargs.limit
                      - Cardinality({i \in 1..Len(vstate) : vstate[i] \in sargs.key})
          IN  IF sargs.limit = 0
              THEN slast'.error /\ vstate' = vstate /\ timers' = timers
              ELSE /\ ~slast'.error
                   /\ vstate' = Append(vstate, slast'.value)
                   /\ nextId \notin DOMAIN timers
                   /\ DOMAIN timers' = DOMAIN timers \cup {nextId}
                   /\ \A t \in DOMAIN timers : timers'[t] = timers[t]
                   /\ timers'[nextId].value = slast'.value
                   /\ timers'[nextId].period * sargs.limit
                         = sargs.period * (room + sargs.trail) * sargs.rate * Den
                   /\ slast'.ret = (IF room > 0 THEN room ELSE 0)]_vars

\* C16 happens: Sling.check tracked a value while the valve was over its limit.
C16_Witness ==
    /\ slast.called
    /\ ~slast.error
    /\ slast.room < 0
    /\ Len(vstate) >= 2

\* The expiries pending for value v.
Pending(v) == {t \in DOMAIN timers : timers[t].value = v}

\* C17: for a Valve constructed empty, each value occurs in the active sequence
\* as many times as there are expiries pending for it.
C17_Bookkeeping ==
    \A v \in Values :
        Cardinality({i \in 1..Len(vstate) : vstate[i] = v}) = Cardinality(Pending(v))

\* C17 happens: one value was tracked twice, one expiry has run or was cancelled,
\* and the other is pending.
C17_Witness ==
    /\ nextId = 3
    /\ Cardinality(DOMAIN timers) = 1
    /\ Len(vstate) = 1
    /\ 2 \in DOMAIN timers
    /\ vstate[1] = timers[2].value

\* C18 as stated, for every limit >= 0: count(key) <= limit in every state.
C18_AnyLimit == 2 * ValveCount(vstate, cap.key) <= cap.limit

\* C18, for a whole limit >= 0: a Valve constructed empty and used through check
\* with bypass=False, one key, one limit and values the key holds for never has
\* count(key) above limit.
C18_HardCap == cap.limit % 2 = 0 => 2 * ValveCount(vstate, cap.key) <= cap.limit

\* C18 happens: the valve is full, and a check was refused.
C18_Witness ==
    /\ cap.limit = 2
    /\ ValveCount(vstate, cap.key) = 1
    /\ last.called /\ ~last.added /\ last.ret = 0

\* C19: when a computation for key K finishes, every caller waiting on a marker
\* for K is released, also when another caller started a second computation.
C19_WaiterRelease ==
    [][\A c \in Calls :
          (pc[c] = "running" /\ pc'[c] = "done") =>
              \A w \in Calls :
                  (pc[w] = "waiting" /\ key[w] = key[c]) => ev[w] \in evset']_vars

====
